---- MODULE Spec2Model ----
(***************************************************************************)
(* virus-wars: a model of the per-frame systems                            *)
(*   handle_interaction -> ai_behavior -> spawn_packets -> move_packets    *)
(*   -> update_visuals                                                     *)
(* over the node records (GameNode), the packets in flight (Packet), the   *)
(* player's FlowMap and the InteractionState.                              *)
(*                                                                         *)
(* Units: time in tenths of a second, lengths in tenths of a world unit.   *)
(* f32 health values are whole numbers throughout (they start at 50/100    *)
(* and change by PACKET_POWER = 1.0 or are set to 10.0), so Int is exact.  *)
(* The systems are chained, so entities spawned by spawn_packets exist     *)
(* when move_packets runs in the same frame.                               *)
(* ComputerGraph::random and setup_game are modelled on their own          *)
(* (SpecGen); the sessions start from graphs that random() can return.     *)
(***************************************************************************)
EXTENDS Integers, Sequences, FiniteSets, TLC

VARIABLES
    graph,            \* ComputerGraph: [n, edges, dist]; fixed after setup_game
    nodes,            \* GameNode per NodeIndex: [owner, hp, targets, elapsed, duration]
    packets,          \* the Packet entities in flight
    flows,            \* FlowMap.flows: a map whose DOMAIN is its set of keys
    selected_source,  \* InteractionState.selected_source
    hovered_node,     \* InteractionState.hovered_node
    path,             \* InteractionState.path
    ai_timer,         \* AiTimer: elapsed time of the repeating timer
    input,            \* this frame's cursor / mouse buttons / keyboard
    stage,            \* which system of the chained Update schedule runs next
    tick,             \* number of frames started
    inputs,           \* number of frames of player input counted so far
    hit,              \* one packet resolved by process_hit (SpecHit, SpecFlight)
    gen               \* ComputerGraph::random: positions placed, attempts made

vars == <<graph, nodes, packets, flows, selected_source, hovered_node, path,
          ai_timer, input, stage, tick, inputs, hit, gen>>

-----------------------------------------------------------------------------
(* Program constants *)

NODE_MAX_HP == 100
PACKET_POWER == 1
PACKET_SPEED == 1
SPAWN_INTERVAL == 1
CAPTURE_HP == 10
START_HP == 100
NEUTRAL_HP == 50
AI_PAUSE_HP == 30
AI_INTERVAL == 2
MIN_DIST == 4
CONNECT_DIST == 9

(* Option::None for an Option<NodeIndex>; node indices are 0 .. n-1 *)
None == -1

Owner == {"Neutral", "Player", "Enemy"}

(* Bounds of the model *)
MaxTick == 32
MaxInputs == 3
MaxIdleTick == 158
MaxEditTick == 5
MaxSiegeTick == 56
MaxEarlierHits == 2
MaxNodes == 3
MaxBatch == 3
MaxAttempts == 4
Delta == 1

-----------------------------------------------------------------------------
(* The graph *)

NodeIndices(g) == 0 .. (g.n - 1)

Neighbors(g, u) == {v \in NodeIndices(g) : {u, v} \in g.edges}

Distance(g, u, v) == IF u = v THEN 0 ELSE g.dist[{u, v}]

(* The maps over nodes 0 .. k that take each node i to a member of opts[i] *)
RECURSIVE Choices(_, _)
Choices(opts, k) ==
    IF k = 0 THEN {(0 :> r) : r \in opts[0]}
    ELSE {c @@ (k :> r) : c \in Choices(opts, k - 1), r \in opts[k]}

(* Three collinear nodes at 0, 2 and 5: the pairs closer than CONNECT_DIST  *)
(* (4.5) are joined, so the graph is the path 0 - 1 - 2.                    *)
PathGraph ==
    [n |-> 3,
     edges |-> {{0, 1}, {1, 2}},
     dist |-> ({0, 1} :> 2) @@ ({1, 2} :> 3) @@ ({0, 2} :> 5)]

Graphs == {PathGraph}

(* Four nodes on a rhombus of side 4 (distances rounded to a tenth of a     *)
(* world unit): both diagonals are longer than CONNECT_DIST, so the graph   *)
(* is the cycle 0 - 1 - 3 - 2 - 0, with two shortest paths between          *)
(* opposite corners.                                                        *)
DiamondGraph ==
    [n |-> 4,
     edges |-> {{0, 1}, {0, 2}, {1, 3}, {2, 3}},
     dist |-> ({0, 1} :> 4) @@ ({0, 2} :> 4) @@ ({1, 3} :> 4) @@ ({2, 3} :> 4)
              @@ ({0, 3} :> 5) @@ ({1, 2} :> 6)]

EditGraphs == {DiamondGraph}

(* A center with three nodes around it at distance 4, 120 degrees apart:   *)
(* the outer nodes are 6.9 apart, so the only edges are the three spokes.  *)
(* The center is placed last and is the Enemy's start node.                *)
StarGraph ==
    [n |-> 4,
     edges |-> {{0, 3}, {1, 3}, {2, 3}},
     dist |-> ({0, 3} :> 4) @@ ({1, 3} :> 4) @@ ({2, 3} :> 4)
              @@ ({0, 1} :> 7) @@ ({0, 2} :> 7) @@ ({1, 2} :> 7)]

(* setup_game: node 0 is the Player's, the last node the Enemy's *)
player_start_idx == 0
enemy_start_idx(g) == g.n - 1

InitialOwner(g, i) ==
    IF i = player_start_idx THEN "Player"
    ELSE IF i = enemy_start_idx(g) THEN "Enemy"
    ELSE "Neutral"

InitialNode(g, i) ==
    [owner |-> InitialOwner(g, i),
     hp |-> IF InitialOwner(g, i) = "Neutral" THEN NEUTRAL_HP ELSE START_HP,
     targets |-> {},
     elapsed |-> 0,
     duration |-> SPAWN_INTERVAL]

NoInput == [cursor |-> FALSE, hit |-> None, left |-> FALSE, right |-> FALSE,
            shift |-> FALSE]

EmptyFlows == [k \in {} |-> {}]

NoGen == [positions |-> <<>>, attempts |-> 0]

NoHit == [node |-> InitialNode(PathGraph, 0), packet_owner |-> "Player",
          out |-> InitialNode(PathGraph, 0), done |-> FALSE]

(* The world after setup_game on graph g *)
Setup(g) ==
    /\ graph = g
    /\ nodes = [i \in NodeIndices(g) |-> InitialNode(g, i)]
    /\ packets = {}
    /\ flows = EmptyFlows
    /\ selected_source = None
    /\ hovered_node = None
    /\ path = <<>>
    /\ ai_timer = 0
    /\ input = NoInput
    /\ stage = "input"
    /\ tick = 0
    /\ inputs = 0
    /\ gen = NoGen

Init == (\E g \in Graphs : Setup(g)) /\ hit = NoHit

-----------------------------------------------------------------------------
(* Frame input: the engine polls window, mouse and keyboard before Update *)

CursorInputs(g) ==
    {i \in [cursor : {TRUE}, hit : NodeIndices(g) \cup {None}, left : BOOLEAN,
            right : BOOLEAN, shift : BOOLEAN] : i.shift => i.right}

HoverInputs(g) == {i \in CursorInputs(g) : ~i.left /\ ~i.right}

(* A frame starts with input inp *)
begin_frame(inp, counted) ==
    /\ stage = "input"
    /\ input' = inp
    /\ inputs' = inputs + counted
    /\ tick' = tick + 1
    /\ stage' = "interaction"
    /\ UNCHANGED <<graph, nodes, packets, flows, selected_source, hovered_node,
                   path, ai_timer, hit, gen>>

(* A session of MaxTick frames with the cursor in the window in at most    *)
(* MaxInputs of them                                                       *)
poll_input ==
    /\ tick < MaxTick
    /\ \/ begin_frame(NoInput, 0)
       \/ /\ inputs < MaxInputs
          /\ \E inp \in CursorInputs(graph) : begin_frame(inp, 1)

-----------------------------------------------------------------------------
(* handle_interaction *)

Last(s) == s[Len(s)]

(* All walks of k nodes along graph edges *)
RECURSIVE Walks(_, _)
Walks(g, k) ==
    IF k = 1 THEN {<<v>> : v \in NodeIndices(g)}
    ELSE UNION {{Append(w, v) : v \in Neighbors(g, Last(w))} :
                  w \in Walks(g, k - 1)}

WalksFromTo(g, k, s, t) == {w \in Walks(g, k) : w[1] = s /\ w[k] = t}

(* astar(graph, source, |n| n == target, |_| 1.0, |_| 0.0): with unit edge  *)
(* costs and a zero heuristic the result is a path of the fewest hops;      *)
(* which of several such paths is returned depends on petgraph's visiting   *)
(* order, so every one of them is a possible result. {} stands for None.    *)
astar(g, source, target) ==
    LET lens == {k \in 1 .. g.n : WalksFromTo(g, k, source, target) # {}}
    IN IF lens = {} THEN {}
       ELSE WalksFromTo(g, CHOOSE k \in lens : \A m \in lens : k <= m,
                        source, target)
(* Mutant: the owner of the clicked node is not looked at *)
select_source_any(sel, inp, ns) ==
    IF inp.left THEN inp.hit ELSE sel

(* interaction.rs 56-69: left click *)
select_source(sel, inp, ns) ==
    IF inp.left
    THEN IF inp.hit # None
         THEN IF ns[inp.hit].owner = "Player" THEN inp.hit ELSE sel
         ELSE None
    ELSE sel

(* Mutant: the path is computed also when the hovered node is the source *)
compute_path_equal(g, sel, hov) ==
    IF sel # None /\ hov # None /\ astar(g, sel, hov) # {}
    THEN astar(g, sel, hov)
    ELSE {<<>>}

(* interaction.rs 71-85: the set of paths the handler may store *)
compute_path(g, sel, hov) ==
    IF sel # None /\ hov # None /\ sel # hov /\ astar(g, sel, hov) # {}
    THEN astar(g, sel, hov)
    ELSE {<<>>}
(* Mutant: the add-mode edit toggles a directive that is already present *)
edit_pair_toggle(f, current_node, next_node, is_erasing) ==
    IF current_node \in DOMAIN f /\ next_node \in f[current_node]
    THEN [f EXCEPT ![current_node] = @ \ {next_node}]
    ELSE [k \in DOMAIN f \cup {current_node} |->
            IF k = current_node
            THEN (IF k \in DOMAIN f THEN f[k] ELSE {}) \cup {next_node}
            ELSE f[k]]

(* Mutant: erasing the last destination leaves the key with an empty set *)
edit_pair_keeping(f, current_node, next_node, is_erasing) ==
    IF is_erasing
    THEN IF current_node \in DOMAIN f
         THEN [f EXCEPT ![current_node] = @ \ {next_node}]
         ELSE f
    ELSE [k \in DOMAIN f \cup {current_node} |->
            IF k = current_node
            THEN (IF k \in DOMAIN f THEN f[k] ELSE {}) \cup {next_node}
            ELSE f[k]]

(* interaction.rs 92-105: one window [current_node, next_node] of the path *)
edit_pair(f, current_node, next_node, is_erasing) ==
    IF is_erasing
    THEN IF current_node \in DOMAIN f
         THEN LET targets == f[current_node] \ {next_node}
              IN IF targets = {}
                 THEN [k \in DOMAIN f \ {current_node} |-> f[k]]
                 ELSE [f EXCEPT ![current_node] = targets]
         ELSE f
    ELSE [k \in DOMAIN f \cup {current_node} |->
            IF k = current_node
            THEN (IF k \in DOMAIN f THEN f[k] ELSE {}) \cup {next_node}
            ELSE f[k]]

(* Mutant: only the first hop of the path is edited *)
edit_windows_first(f, p, i, is_erasing) ==
    IF i = 1 /\ Len(p) >= 2 THEN edit_pair(f, p[1], p[2], is_erasing) ELSE f

(* interaction.rs 89-107: for window in state.path.windows(2), from index i *)
RECURSIVE edit_windows(_, _, _, _)
edit_windows(f, p, i, is_erasing) ==
    IF i + 1 > Len(p) THEN f
    ELSE edit_windows(edit_pair(f, p[i], p[i + 1], is_erasing), p, i + 1,
                      is_erasing)

(* Mutant: the directive goes from the source straight to the goal *)
edit_flow_direct(f, p, inp) ==
    IF inp.right /\ p # <<>> /\ Len(p) >= 2
    THEN edit_pair(f, p[1], p[Len(p)], inp.shift) ELSE f

(* Mutant: only the directive of the selected source is edited *)
edit_flow_source_only(f, p, inp) ==
    IF inp.right /\ p # <<>> THEN edit_pair(f, p[1], p[2], inp.shift) ELSE f

(* interaction.rs 87-115: right click *)
edit_flow(f, p, inp) ==
    IF inp.right /\ p # <<>> THEN edit_windows(f, p, 1, inp.shift) ELSE f

(* Mutant: the systems are not chained; ai_behavior may be scheduled before *)
(* handle_interaction and does not run after it                            *)
handle_interaction_unchained ==
    /\ stage = "interaction"
    /\ IF ~input.cursor
       THEN UNCHANGED <<flows, selected_source, hovered_node, path>>
       ELSE /\ hovered_node' = input.hit
            /\ selected_source' = select_source(selected_source, input, nodes)
            /\ path' \in compute_path(graph, selected_source', hovered_node')
            /\ flows' = edit_flow(flows, path', input)
    /\ stage' \in {"ai", "spawn"}
    /\ UNCHANGED <<graph, nodes, packets, ai_timer, input, tick, inputs, hit, gen>>

handle_interaction ==
    /\ stage = "interaction"
    /\ IF ~input.cursor
       THEN \* window.cursor_position() is None: early return
            UNCHANGED <<flows, selected_source, hovered_node, path>>
       ELSE /\ hovered_node' = input.hit
            /\ selected_source' = select_source(selected_source, input, nodes)
            /\ path' \in compute_path(graph, selected_source', hovered_node')
            /\ flows' = edit_flow(flows, path', input)
    /\ stage' = "ai"
    /\ UNCHANGED <<graph, nodes, packets, ai_timer, input, tick, inputs, hit, gen>>

-----------------------------------------------------------------------------
(* Timer (bevy::time::Timer, TimerMode::Repeating): tick(delta) adds delta  *)
(* to the elapsed time; when it reaches the duration the timer has just     *)
(* finished and the elapsed time wraps around the duration.                 *)

just_finished(elapsed, duration, delta) == elapsed + delta >= duration

timer_tick(elapsed, duration, delta) ==
    IF just_finished(elapsed, duration, delta)
    THEN (elapsed + delta) % duration
    ELSE elapsed + delta

-----------------------------------------------------------------------------
(* ai_behavior *)

(* Mutant: no defensive pause below AI_PAUSE_HP *)
ai_node_nopause(g, node, i) ==
    IF node.owner # "Enemy" THEN {node}
    ELSE IF Neighbors(g, i) = {}
    THEN {[node EXCEPT !.targets = {}]}
    ELSE {[node EXCEPT !.targets = {t}] : t \in Neighbors(g, i)}

(* ai.rs 22-38: the records ai_behavior may leave node i with; the         *)
(* neighbor is chosen at random                                            *)
ai_node(g, node, i) ==
    IF node.owner # "Enemy" THEN {node}
    ELSE IF node.hp < AI_PAUSE_HP \/ Neighbors(g, i) = {}
    THEN {[node EXCEPT !.targets = {}]}
    ELSE {[node EXCEPT !.targets = {t}] : t \in Neighbors(g, i)}

ai_behavior ==
    /\ stage = "ai"
    /\ ai_timer' = timer_tick(ai_timer, AI_INTERVAL, Delta)
    /\ IF ~just_finished(ai_timer, AI_INTERVAL, Delta)
       THEN UNCHANGED nodes
       ELSE nodes' \in Choices([i \in NodeIndices(graph) |->
                                  ai_node(graph, nodes[i], i)], graph.n - 1)
    /\ stage' = "spawn"
    /\ UNCHANGED <<graph, packets, flows, selected_source, hovered_node, path,
                   input, tick, inputs, hit, gen>>

-----------------------------------------------------------------------------
(* spawn_packets *)

(* Mutant: a Player node without directives fires at its neighbors *)
active_targets_default(g, ns, f, i) ==
    IF ns[i].owner = "Player"
    THEN IF i \in DOMAIN f THEN f[i] ELSE Neighbors(g, i)
    ELSE IF ns[i].owner = "Enemy"
    THEN {t \in Neighbors(g, i) :
            ns[t].owner # "Enemy" \/ ns[t].hp < NODE_MAX_HP}
    ELSE {}

(* packet.rs 40-58 *)
active_targets(g, ns, f, i) ==
    IF ns[i].owner = "Player"
    THEN IF i \in DOMAIN f THEN f[i] ELSE {}
    ELSE IF ns[i].owner = "Enemy"
    THEN {t \in Neighbors(g, i) :
            ns[t].owner # "Enemy" \/ ns[t].hp < NODE_MAX_HP}
    ELSE {}

(* packet.rs 62 *)
fires(g, ns, f, i) ==
    /\ just_finished(ns[i].elapsed, ns[i].duration, Delta)
    /\ active_targets(g, ns, f, i) # {}
    /\ ns[i].owner # "Neutral"
(* Mutant: a node pays PACKET_POWER of its own health for each wave *)
spawn_node_paying(g, ns, f, i) ==
    IF fires(g, ns, f, i)
    THEN [ns[i] EXCEPT
            !.duration = SPAWN_INTERVAL * Cardinality(active_targets(g, ns, f, i)),
            !.elapsed = 0,
            !.hp = @ - PACKET_POWER]
    ELSE [ns[i] EXCEPT
            !.elapsed = timer_tick(ns[i].elapsed, ns[i].duration, Delta)]

(* Mutant: the cooldown does not depend on the number of targets *)
spawn_node_fixed(g, ns, f, i) ==
    IF fires(g, ns, f, i)
    THEN [ns[i] EXCEPT !.duration = SPAWN_INTERVAL, !.elapsed = 0]
    ELSE [ns[i] EXCEPT
            !.elapsed = timer_tick(ns[i].elapsed, ns[i].duration, Delta)]

(* packet.rs 60-70: the node's timer after this frame *)
spawn_node(g, ns, f, i) ==
    IF fires(g, ns, f, i)
    THEN [ns[i] EXCEPT
            !.duration = SPAWN_INTERVAL * Cardinality(active_targets(g, ns, f, i)),
            !.elapsed = 0]
    ELSE [ns[i] EXCEPT
            !.elapsed = timer_tick(ns[i].elapsed, ns[i].duration, Delta)]

(* Mutant: a wave is a single packet, toward the lowest target *)
spawned_single(g, ns, f, i) ==
    IF fires(g, ns, f, i)
    THEN LET t == CHOOSE t \in active_targets(g, ns, f, i) :
                     \A u \in active_targets(g, ns, f, i) : t <= u
         IN {[from |-> i, to |-> t, owner |-> ns[i].owner, progress |-> 0,
              edge_len |-> Distance(g, i, t)]}
    ELSE {}

(* packet.rs 72-94: progress is kept multiplied by edge_len *)
spawned(g, ns, f, i) ==
    IF fires(g, ns, f, i)
    THEN {[from |-> i, to |-> t, owner |-> ns[i].owner, progress |-> 0,
           edge_len |-> Distance(g, i, t)] : t \in active_targets(g, ns, f, i)}
    ELSE {}

(* Mutant: the emitter drops the directives of nodes the Player does not own *)
spawn_packets_pruning ==
    /\ stage = "spawn"
    /\ nodes' = [i \in NodeIndices(graph) |-> spawn_node(graph, nodes, flows, i)]
    /\ packets' = packets \cup
                  UNION {spawned(graph, nodes, flows, i) : i \in NodeIndices(graph)}
    /\ flows' = [k \in {i \in DOMAIN flows : nodes[i].owner = "Player"} |-> flows[k]]
    /\ stage' = "move"
    /\ UNCHANGED <<graph, selected_source, hovered_node, path, ai_timer,
                   input, tick, inputs, hit, gen>>

spawn_packets ==
    /\ stage = "spawn"
    /\ nodes' = [i \in NodeIndices(graph) |-> spawn_node(graph, nodes, flows, i)]
    /\ packets' = packets \cup
                  UNION {spawned(graph, nodes, flows, i) : i \in NodeIndices(graph)}
    /\ stage' = "move"
    /\ UNCHANGED <<graph, flows, selected_source, hovered_node, path, ai_timer,
                   input, tick, inputs, hit, gen>>

-----------------------------------------------------------------------------
(* move_packets *)

(* Mutant: capture only when the health falls below zero *)
process_hit_below(node, packet_owner) ==
    IF node.owner = packet_owner
    THEN [node EXCEPT !.hp = IF node.hp + PACKET_POWER < NODE_MAX_HP
                             THEN node.hp + PACKET_POWER ELSE NODE_MAX_HP]
    ELSE IF node.hp - PACKET_POWER < 0
    THEN [node EXCEPT !.owner = packet_owner, !.hp = CAPTURE_HP, !.targets = {}]
    ELSE [node EXCEPT !.hp = node.hp - PACKET_POWER]

(* Mutant: a captured node is reset to full health *)
process_hit_full(node, packet_owner) ==
    IF node.owner = packet_owner
    THEN [node EXCEPT !.hp = IF node.hp + PACKET_POWER < NODE_MAX_HP
                             THEN node.hp + PACKET_POWER ELSE NODE_MAX_HP]
    ELSE IF node.hp - PACKET_POWER <= 0
    THEN [node EXCEPT !.owner = packet_owner, !.hp = NODE_MAX_HP, !.targets = {}]
    ELSE [node EXCEPT !.hp = node.hp - PACKET_POWER]

(* Mutant: healing is not capped *)
process_hit_uncapped(node, packet_owner) ==
    IF node.owner = packet_owner
    THEN [node EXCEPT !.hp = node.hp + PACKET_POWER]
    ELSE IF node.hp - PACKET_POWER <= 0
    THEN [node EXCEPT !.owner = packet_owner, !.hp = CAPTURE_HP, !.targets = {}]
    ELSE [node EXCEPT !.hp = node.hp - PACKET_POWER]

(* Mutant: a Player packet repairs a Neutral node *)
process_hit_repairing(node, packet_owner) ==
    IF node.owner = packet_owner \/ (node.owner = "Neutral" /\ packet_owner = "Player")
    THEN [node EXCEPT !.hp = IF node.hp + PACKET_POWER < NODE_MAX_HP
                             THEN node.hp + PACKET_POWER ELSE NODE_MAX_HP]
    ELSE IF node.hp - PACKET_POWER <= 0
    THEN [node EXCEPT !.owner = packet_owner, !.hp = CAPTURE_HP, !.targets = {}]
    ELSE [node EXCEPT !.hp = node.hp - PACKET_POWER]

(* Mutant: an owned node that loses its last point becomes Neutral *)
process_hit_neutral(node, packet_owner) ==
    IF node.owner = packet_owner
    THEN [node EXCEPT !.hp = IF node.hp + PACKET_POWER < NODE_MAX_HP
                             THEN node.hp + PACKET_POWER ELSE NODE_MAX_HP]
    ELSE IF node.hp - PACKET_POWER <= 0
    THEN [node EXCEPT !.owner = IF node.owner = "Neutral" THEN packet_owner
                                ELSE "Neutral",
                      !.hp = CAPTURE_HP, !.targets = {}]
    ELSE [node EXCEPT !.hp = node.hp - PACKET_POWER]

(* packet.rs 130-141 *)
process_hit(node, packet_owner) ==
    IF node.owner = packet_owner
    THEN [node EXCEPT !.hp = IF node.hp + PACKET_POWER < NODE_MAX_HP
                             THEN node.hp + PACKET_POWER ELSE NODE_MAX_HP]
    ELSE IF node.hp - PACKET_POWER <= 0
    THEN [node EXCEPT !.owner = packet_owner, !.hp = CAPTURE_HP, !.targets = {}]
    ELSE [node EXCEPT !.hp = node.hp - PACKET_POWER]

(* Mutant: a packet in flight follows the current owner of its source *)
advance_following(p) ==
    [p EXCEPT !.progress = p.progress + PACKET_SPEED * Delta,
              !.owner = nodes[p.from].owner]

(* packet.rs 108-109: progress += (PACKET_SPEED / edge_len) * delta *)
advance(p) == [p EXCEPT !.progress = p.progress + PACKET_SPEED * Delta]

(* Mutant: a packet whose source has changed hands never arrives *)
arrived_loyal(p) == p.progress >= p.edge_len /\ nodes[p.from].owner = p.owner

(* packet.rs 118: progress >= 1.0 *)
arrived(p) == p.progress >= p.edge_len

(* The orders in which the query may visit a set of packets *)
Orders(S) ==
    {o \in [1 .. Cardinality(S) -> S] :
        \A i, j \in 1 .. Cardinality(S) : o[i] = o[j] => i = j}

(* packet.rs 118-126: arrivals at one node resolved one after another *)
RECURSIVE resolve(_, _, _)
resolve(node, order, i) ==
    IF i > Len(order) THEN node
    ELSE resolve(process_hit(node, order[i].owner), order, i + 1)

(* Mutant: every arrival of a frame is resolved against the record the    *)
(* node had when the frame began, the last one written stays               *)
hit_node_snapshot(ns, hits, i) ==
    IF {p \in hits : p.to = i} = {} THEN {ns[i]}
    ELSE {process_hit(ns[i], p.owner) : p \in {q \in hits : q.to = i}}

(* packet.rs 107-127: the records node i may be left with. The query's     *)
(* iteration order is not fixed by the program; hits on different nodes    *)
(* do not affect each other, so the outcome is one order per destination.  *)
hit_node(ns, hits, i) ==
    {resolve(ns[i], order, 1) : order \in Orders({p \in hits : p.to = i})}

(* Mutant: a capture also removes the captured node's FlowMap entry *)
move_packets_clearing ==
    /\ stage = "move"
    /\ LET moved == {advance(p) : p \in packets}
           hits == {p \in moved : arrived(p)}
       IN /\ packets' = moved \ hits
          /\ nodes' \in Choices([i \in NodeIndices(graph) |->
                                  hit_node(nodes, hits, i)], graph.n - 1)
    /\ flows' = [k \in {i \in DOMAIN flows : nodes'[i].owner = nodes[i].owner}
                   |-> flows[k]]
    /\ stage' = "visual"
    /\ UNCHANGED <<graph, selected_source, hovered_node, path, ai_timer,
                   input, tick, inputs, hit, gen>>

(* Mutant: an arrived packet is resolved but stays in flight *)
move_packets_keeping ==
    /\ stage = "move"
    /\ LET moved == {advance(p) : p \in packets}
           hits == {p \in moved : arrived(p)}
       IN /\ packets' = {p \in moved : p.progress <= p.edge_len}
          /\ nodes' \in Choices([i \in NodeIndices(graph) |->
                                  hit_node(nodes, hits, i)], graph.n - 1)
    /\ stage' = "visual"
    /\ UNCHANGED <<graph, flows, selected_source, hovered_node, path, ai_timer,
                   input, tick, inputs, hit, gen>>

move_packets ==
    /\ stage = "move"
    /\ LET moved == {advance(p) : p \in packets}
           hits == {p \in moved : arrived(p)}
       IN /\ packets' = moved \ hits
          /\ nodes' \in Choices([i \in NodeIndices(graph) |->
                                  hit_node(nodes, hits, i)], graph.n - 1)
    /\ stage' = "visual"
    /\ UNCHANGED <<graph, flows, selected_source, hovered_node, path, ai_timer,
                   input, tick, inputs, hit, gen>>

-----------------------------------------------------------------------------
(* update_visuals writes materials only; the frame ends *)

update_visuals ==
    /\ stage = "visual"
    /\ stage' = "input"
    /\ UNCHANGED <<graph, nodes, packets, flows, selected_source, hovered_node,
                   path, ai_timer, input, tick, inputs, hit, gen>>

Next ==
    \/ poll_input
    \/ handle_interaction
    \/ ai_behavior
    \/ spawn_packets
    \/ move_packets
    \/ update_visuals

Spec == Init /\ [][Next]_vars

-----------------------------------------------------------------------------
(* A long session: the same systems followed for MaxIdleTick frames, in    *)
(* which the player presses a button in at most one frame and otherwise    *)
(* only moves the cursor or leaves the window.                             *)

poll_input_idle ==
    /\ tick < MaxIdleTick
    /\ \/ \E inp \in {NoInput} \cup HoverInputs(graph) : begin_frame(inp, 0)
       \/ /\ inputs < 1
          /\ \E inp \in CursorInputs(graph) : begin_frame(inp, 1)

NextIdle ==
    \/ poll_input_idle
    \/ handle_interaction
    \/ ai_behavior
    \/ spawn_packets
    \/ move_packets
    \/ update_visuals

SpecIdle == Init /\ [][NextIdle]_vars

-----------------------------------------------------------------------------
(* An editing session: MaxEditTick frames on a graph with a cycle, with    *)
(* any input in every frame.                                               *)

EditInit == (\E g \in EditGraphs : Setup(g)) /\ hit = NoHit

poll_input_edit ==
    /\ tick < MaxEditTick
    /\ \E inp \in {NoInput} \cup CursorInputs(graph) :
          begin_frame(inp, IF inp.cursor THEN 1 ELSE 0)

NextEdit ==
    \/ poll_input_edit
    \/ handle_interaction
    \/ ai_behavior
    \/ spawn_packets
    \/ move_packets
    \/ update_visuals

SpecEdit == EditInit /\ [][NextEdit]_vars

-----------------------------------------------------------------------------
(* The same session on the star, whose center fires at three targets *)

StarInit == Setup(StarGraph) /\ hit = NoHit

SpecStar == StarInit /\ [][NextEdit]_vars

-----------------------------------------------------------------------------
(* A contest for the middle node of the path: MaxSiegeTick frames in which *)
(* the player gives up to MaxInputs commands out of: select node 0, add    *)
(* the flows toward node 2, erase the flow toward node 1.                  *)

SiegeInputs ==
    {[cursor |-> TRUE, hit |-> 0, left |-> TRUE, right |-> FALSE, shift |-> FALSE],
     [cursor |-> TRUE, hit |-> 2, left |-> FALSE, right |-> TRUE, shift |-> FALSE],
     [cursor |-> TRUE, hit |-> 1, left |-> FALSE, right |-> TRUE, shift |-> TRUE]}

poll_input_siege ==
    /\ tick < MaxSiegeTick
    /\ \/ begin_frame(NoInput, 0)
       \/ /\ inputs < MaxInputs
          /\ \E inp \in SiegeInputs : begin_frame(inp, 1)

NextSiege ==
    \/ poll_input_siege
    \/ handle_interaction
    \/ ai_behavior
    \/ spawn_packets
    \/ move_packets
    \/ update_visuals

SpecSiege == Init /\ [][NextSiege]_vars

(* The schedule runs every frame: a frame that can start does start, and a *)
(* system whose turn it is runs                                            *)
FairSiege == SpecSiege /\ WF_vars(NextSiege)

-----------------------------------------------------------------------------
(* process_hit on its own: one arrival resolved against one node record,   *)
(* for every owner and health a node can have and both packet owners.      *)

HitNodes ==
    {nd \in [owner : Owner, hp : 1 .. NODE_MAX_HP,
             targets : {{}} \cup {{t} : t \in NodeIndices(PathGraph)},
             elapsed : {0}, duration : {SPAWN_INTERVAL}] :
        /\ nd.owner = "Neutral" => nd.hp <= NEUTRAL_HP
        /\ nd.owner # "Enemy" => nd.targets = {}}

HitInit ==
    /\ Setup(PathGraph)
    /\ hit \in {[node |-> nd, packet_owner |-> o, out |-> nd, done |-> FALSE] :
                  nd \in HitNodes, o \in {"Player", "Enemy"}}

(* move_packets 118-126 for a single arriving packet *)
apply_hit ==
    /\ ~hit.done
    /\ hit' = [hit EXCEPT
                 !.out = resolve(hit.node,
                                 <<[from |-> 1, to |-> 0, owner |-> hit.packet_owner,
                                    progress |-> 1, edge_len |-> 1]>>, 1),
                 !.done = TRUE]
    /\ UNCHANGED <<graph, nodes, packets, flows, selected_source, hovered_node,
                   path, ai_timer, input, stage, tick, inputs, gen>>

SpecHit == HitInit /\ [][apply_hit]_vars

-----------------------------------------------------------------------------
(* One packet in flight toward one node: hit.node is the node's record     *)
(* when the packet is spawned, hit.before its record when the packet       *)
(* arrives, after up to MaxEarlierHits packets of either side have been    *)
(* resolved against it in the meantime, hit.out the record after the       *)
(* packet's own resolution.                                                *)

FlightInit ==
    /\ Setup(PathGraph)
    /\ hit \in {[node |-> nd, packet_owner |-> o, before |-> nd, earlier |-> 0,
                  out |-> nd, done |-> FALSE] :
                  nd \in HitNodes, o \in {"Player", "Enemy"}}

(* move_packets 118-126 for a packet that arrives earlier at the same node *)
earlier_hit ==
    /\ ~hit.done
    /\ hit.earlier < MaxEarlierHits
    /\ \E o \in {"Player", "Enemy"} :
          hit' = [hit EXCEPT !.before = process_hit(hit.before, o),
                             !.earlier = @ + 1]
    /\ UNCHANGED <<graph, nodes, packets, flows, selected_source, hovered_node,
                   path, ai_timer, input, stage, tick, inputs, gen>>

(* Mutant: the packet is resolved against the owner the node had at spawn *)
arrive_as_spawned ==
    /\ ~hit.done
    /\ hit' = [hit EXCEPT
                 !.out = process_hit([hit.before EXCEPT !.owner = hit.node.owner],
                                     hit.packet_owner),
                 !.done = TRUE]
    /\ UNCHANGED <<graph, nodes, packets, flows, selected_source, hovered_node,
                   path, ai_timer, input, stage, tick, inputs, gen>>

(* move_packets 118-126 for the packet itself *)
arrive ==
    /\ ~hit.done
    /\ hit' = [hit EXCEPT !.out = process_hit(hit.before, hit.packet_owner),
                          !.done = TRUE]
    /\ UNCHANGED <<graph, nodes, packets, flows, selected_source, hovered_node,
                   path, ai_timer, input, stage, tick, inputs, gen>>

NextFlight == earlier_hit \/ arrive

SpecFlight == FlightInit /\ [][NextFlight]_vars

------------------------------------------------------------------------------
(* One frame of move_packets at the center of the star: up to MaxBatch     *)
(* packets, one per neighbor and of either side, reach the end of their    *)
(* edges in the same frame; hit.node is the center's record before the     *)
(* frame, hit.out its record after it.                                     *)

Batches ==
    {b \in SUBSET [from : Neighbors(StarGraph, 3), to : {3},
                   owner : {"Player", "Enemy"}, progress : {4}, edge_len : {4}] :
        /\ b # {}
        /\ Cardinality(b) <= MaxBatch
        /\ \A p, q \in b : p.from = q.from => p = q}

BatchInit ==
    /\ Setup(StarGraph)
    /\ hit \in {[node |-> nd, batch |-> b, out |-> nd, done |-> FALSE] :
                  nd \in HitNodes, b \in Batches}

(* move_packets 107-127 for the packets that arrive at the center *)
arrive_batch ==
    /\ ~hit.done
    /\ \E out \in hit_node([i \in {3} |-> hit.node], hit.batch, 3) :
          hit' = [hit EXCEPT !.out = out, !.done = TRUE]
    /\ UNCHANGED <<graph, nodes, packets, flows, selected_source, hovered_node,
                   path, ai_timer, input, stage, tick, inputs, gen>>

SpecBatch == BatchInit /\ [][arrive_batch]_vars

-----------------------------------------------------------------------------
(* ComputerGraph::random followed by setup_game. Positions are on a grid   *)
(* of twentieths of a world unit (MIN_DIST = 0.2 is 4, CONNECT_DIST = 0.45 *)
(* is 9) and distances are compared by their squares. MaxNodes stands for  *)
(* NODE_COUNT and MaxAttempts for NODE_COUNT * ATTEMPTS. The graph under   *)
(* construction is [n, edges, positions].                                  *)

(* The candidates rng.random_range may return *)
GenPoints == {<<-9, 0>>, <<-6, 0>>, <<-1, 0>>, <<8, 0>>, <<-1, 10>>}

Dist2(a, b) == (a[1] - b[1]) * (a[1] - b[1]) + (a[2] - b[2]) * (a[2] - b[2])

GenInit ==
    /\ graph = [n |-> 0, edges |-> {}, positions |-> <<>>]
    /\ nodes = <<>>
    /\ packets = {}
    /\ flows = EmptyFlows
    /\ selected_source = None
    /\ hovered_node = None
    /\ path = <<>>
    /\ ai_timer = 0
    /\ input = NoInput
    /\ stage = "place"
    /\ tick = 0
    /\ inputs = 0
    /\ hit = NoHit
    /\ gen = NoGen

(* resources.rs 49-61: the placement loop has ended *)
placed(gn) == gn.attempts >= MaxAttempts \/ Len(gn.positions) >= MaxNodes

(* resources.rs 49-61: one iteration of the placement loop *)
place_candidate ==
    /\ stage = "place"
    /\ ~placed(gen)
    /\ \E candidate \in GenPoints :
          gen' = [positions |->
                     IF \E k \in 1 .. Len(gen.positions) :
                           Dist2(gen.positions[k], candidate) < MIN_DIST * MIN_DIST
                     THEN gen.positions
                     ELSE Append(gen.positions, candidate),
                  attempts |-> gen.attempts + 1]
    /\ UNCHANGED <<graph, nodes, packets, flows, selected_source, hovered_node,
                   path, ai_timer, input, stage, tick, inputs, hit>>

(* resources.rs 63-78: node i - 1 is positions[i]; every pair closer than  *)
(* CONNECT_DIST is joined                                                  *)
connect ==
    /\ stage = "place"
    /\ placed(gen)
    /\ graph' = [n |-> Len(gen.positions),
                 edges |-> {{i - 1, j - 1} : <<i, j>> \in
                              {q \in (1 .. Len(gen.positions)) \X (1 .. Len(gen.positions)) :
                                 /\ q[1] < q[2]
                                 /\ Dist2(gen.positions[q[1]], gen.positions[q[2]])
                                       < CONNECT_DIST * CONNECT_DIST}},
                 positions |-> gen.positions]
    /\ stage' = "repair"
    /\ UNCHANGED <<nodes, packets, flows, selected_source, hovered_node, path,
                   ai_timer, input, tick, inputs, hit, gen>>

(* The nodes a breadth-first search from the nodes of S visits *)
RECURSIVE Bfs(_, _)
Bfs(g, S) ==
    LET T == S \cup UNION {Neighbors(g, u) : u \in S}
    IN IF T = S THEN S ELSE Bfs(g, T)

(* resources.rs 81-94 *)
components(g) == {Bfs(g, {u}) : u \in NodeIndices(g)}

NodeDist2(g, u, v) == Dist2(g.positions[u + 1], g.positions[v + 1])

(* Mutant: the nearest pair of distinct unjoined nodes, in any components *)
best_edge_anywhere(g) ==
    LET pairs == {e \in NodeIndices(g) \X NodeIndices(g) :
                    e[1] < e[2] /\ {e[1], e[2]} \notin g.edges}
    IN {e \in pairs :
          \A f \in pairs : NodeDist2(g, e[1], e[2]) <= NodeDist2(g, f[1], f[2])}

(* resources.rs 100-114: the pairs between components[0], the component of *)
(* the first node, and the other components at the least distance; which   *)
(* of several such pairs is kept depends on the search order               *)
best_edge(g) ==
    LET island_a == Bfs(g, {0})
        pairs == island_a \X (NodeIndices(g) \ island_a)
    IN {e \in pairs :
          \A f \in pairs : NodeDist2(g, e[1], e[2]) <= NodeDist2(g, f[1], f[2])}

(* Mutant: the repair adds one edge and returns *)
repair_once ==
    /\ stage = "repair"
    /\ IF Cardinality(components(graph)) <= 1
       THEN UNCHANGED graph
       ELSE \E e \in best_edge(graph) :
               graph' = [graph EXCEPT !.edges = @ \cup {{e[1], e[2]}}]
    /\ stage' = "setup"
    /\ UNCHANGED <<nodes, packets, flows, selected_source, hovered_node, path,
                   ai_timer, input, tick, inputs, hit, gen>>

(* resources.rs 80-120: one iteration of the repair loop *)
repair ==
    /\ stage = "repair"
    /\ IF Cardinality(components(graph)) <= 1
       THEN /\ stage' = "setup"
            /\ UNCHANGED graph
       ELSE /\ \E e \in best_edge(graph) :
                  graph' = [graph EXCEPT !.edges = @ \cup {{e[1], e[2]}}]
            /\ UNCHANGED stage
    /\ UNCHANGED <<nodes, packets, flows, selected_source, hovered_node, path,
                   ai_timer, input, tick, inputs, hit, gen>>

(* main.rs 208-248: the nodes are spawned on whatever graph was returned *)
setup_game ==
    /\ stage = "setup"
    /\ nodes' = [i \in NodeIndices(graph) |-> InitialNode(graph, i)]
    /\ stage' = "input"
    /\ UNCHANGED <<graph, packets, flows, selected_source, hovered_node, path,
                   ai_timer, input, tick, inputs, hit, gen>>

NextGen ==
    \/ place_candidate
    \/ connect
    \/ repair
    \/ setup_game

SpecGen == GenInit /\ [][NextGen]_vars

(* random() and setup_game run to their end *)
FairGen == SpecGen /\ WF_vars(NextGen)

-----------------------------------------------------------------------------
(* Properties *)

FlowPairs(f) ==
    {q \in NodeIndices(graph) \X NodeIndices(graph) :
        q[1] \in DOMAIN f /\ q[2] \in f[q[1]]}

PathPairs(p) == {<<p[i], p[i + 1]>> : i \in 1 .. (Len(p) - 1)}

Captured(i) == nodes'[i].owner # nodes[i].owner

(* C1: at every tick boundary (and in every state between) the health of   *)
(* every node is within 0 .. NODE_MAX_HP and is never at or below zero: a  *)
(* hit that would take it there captures the node in the same step.        *)
C1_HealthInRange ==
    \A i \in NodeIndices(graph) :
        /\ 0 <= nodes[i].hp
        /\ nodes[i].hp <= NODE_MAX_HP
        /\ ~(nodes[i].hp <= 0)

(* A tick boundary right after a damage packet has captured a node *)
C1_Witness ==
    /\ stage = "input"
    /\ \E i \in NodeIndices(graph) :
          /\ nodes[i].owner # InitialOwner(graph, i)
          /\ nodes[i].hp = CAPTURE_HP

(* C2: a packet arriving at a node of another owner lowers the health by   *)
(* PACKET_POWER; at or below zero the node goes to the packet's owner with *)
(* health exactly 10, above zero the owner stays.                          *)
C2_DamageOrCapture ==
    (hit.done /\ hit.node.owner # hit.packet_owner) =>
        IF hit.node.hp - 1 <= 0
        THEN hit.out.owner = hit.packet_owner /\ hit.out.hp = 10
        ELSE hit.out.owner = hit.node.owner /\ hit.out.hp = hit.node.hp - 1

(* A node at health 1 captured by the other side *)
C2_Witness ==
    /\ hit.done
    /\ hit.node.owner = "Player" /\ hit.packet_owner = "Enemy"
    /\ hit.node.hp = 1
    /\ hit.out.owner = "Enemy" /\ hit.out.hp = 10

C4_FlowsOnlyByRightClick ==
    [][/\ flows' # flows => (stage = "interaction" /\ input.cursor /\ input.right)
       /\ stage \in {"ai", "spawn", "move"} => flows' = flows]_vars

(* Directives are present, packets have been emitted and have hit a node *)
C4_Witness ==
    /\ stage = "visual"
    /\ DOMAIN flows # {}
    /\ packets # {}
    /\ \E i \in NodeIndices(graph) : nodes[i].hp # InitialNode(graph, i).hp

(* C5: a packet arriving at a node of its own owner sets the health to     *)
(* min(health + 1, 100) and keeps the owner.                               *)
C5_HealCapped ==
    (hit.done /\ hit.node.owner = hit.packet_owner) =>
        /\ hit.out.owner = hit.node.owner
        /\ hit.out.hp <= 100
        /\ hit.node.hp <= 99 => hit.out.hp = hit.node.hp + 1
        /\ hit.node.hp = 100 => hit.out.hp = 100

(* A node at 99 healed to exactly 100 *)
C5_Witness ==
    /\ hit.done
    /\ hit.node.owner = hit.packet_owner
    /\ hit.node.hp = 99
    /\ hit.out.hp = 100

(* C6: owner and health of a node change only in move_packets *)
C6_NodesOnlyByTransit ==
    [][(\E i \in NodeIndices(graph) :
           nodes'[i].owner # nodes[i].owner \/ nodes'[i].hp # nodes[i].hp)
       => stage = "move"]_vars

(* The other systems have run on a node that was hit before, and a wave    *)
(* has just been emitted                                                   *)
C6_Witness ==
    /\ stage = "move"
    /\ \E p \in packets : p.progress = 0
    /\ \E i \in NodeIndices(graph) : nodes[i].hp # InitialNode(graph, i).hp

(* Every sequence of 2 .. n nodes along graph edges: the paths that        *)
(* handle_interaction can compute are among them                            *)
AllPaths == UNION {Walks(graph, k) : k \in 2 .. graph.n}

AddClick == [cursor |-> TRUE, hit |-> None, left |-> FALSE, right |-> TRUE,
             shift |-> FALSE]

C8_EditExactlyPathPairs ==
    [][(stage = "interaction" /\ input.cursor /\ input.right) =>
         /\ path' = <<>> => flows' = flows
         /\ (path' # <<>> /\ ~input.shift) =>
              FlowPairs(flows') = FlowPairs(flows) \cup PathPairs(path')
         /\ (path' # <<>> /\ input.shift) =>
              FlowPairs(flows') = FlowPairs(flows) \ PathPairs(path')
         /\ \A k \in DOMAIN flows' : flows'[k] # {}]_vars

(* An erase-mode right click along a two-hop path after which the source   *)
(* keeps a directive that is not on the path and the middle node's key is  *)
(* gone                                                                    *)
C8_Witness ==
    /\ stage = "ai"
    /\ input.cursor /\ input.right /\ input.shift
    /\ Len(path) = 3
    /\ path[1] \in DOMAIN flows
    /\ flows[path[1]] # {}
    /\ path[2] \notin flows[path[1]]
    /\ path[2] \notin DOMAIN flows
    /\ tick >= 4

(* C9: a left click with the cursor in the window selects the hovered node *)
(* exactly when there is one and the Player owns it, clears the selection  *)
(* when no node is hovered, and otherwise leaves the selection as it is;   *)
(* without a left click the selection does not change.                     *)
C9_PrimarySelect ==
    [][stage = "interaction" =>
         IF input.cursor /\ input.left
         THEN /\ (input.hit # None /\ nodes[input.hit].owner = "Player")
                   => selected_source' = input.hit
              /\ (input.hit # None /\ nodes[input.hit].owner # "Player")
                   => selected_source' = selected_source
              /\ input.hit = None => selected_source' = None
         ELSE selected_source' = selected_source]_vars

(* A left click on a node of another owner that did not move the selection *)
C9_Witness ==
    /\ stage = "ai"
    /\ input.cursor /\ input.left
    /\ input.hit # None
    /\ nodes[input.hit].owner # "Player"
    /\ selected_source # None
    /\ selected_source # input.hit

(* C10 as stated: after handle_interaction the selected source, if any, is *)
(* a node the Player owns.                                                 *)
C10_SelectionOwnedByPlayer ==
    stage = "ai" =>
        (selected_source # None => nodes[selected_source].owner = "Player")

(* C11: after the path computation of handle_interaction the path is empty *)
(* when the source or the hovered node is undefined or when they are       *)
(* equal; otherwise it starts at the selected source, ends at the hovered  *)
(* node, steps only along graph edges, and no walk with fewer nodes joins  *)
(* the two.                                                                *)
C11_ShortestPath ==
    [][(stage = "interaction" /\ input.cursor) =>
         LET s == selected_source'
             t == hovered_node'
             p == path'
         IN IF s = None \/ t = None \/ s = t
            THEN p = <<>>
            ELSE /\ Len(p) >= 2
                 /\ p[1] = s
                 /\ p[Len(p)] = t
                 /\ \A i \in 1 .. (Len(p) - 1) : {p[i], p[i + 1]} \in graph.edges
                 /\ \A k \in 1 .. (Len(p) - 1) :
                       WalksFromTo(graph, k, s, t) = {}]_vars

(* A two-hop path between opposite corners, which are not adjacent *)
C11_Witness ==
    /\ stage = "ai"
    /\ input.cursor
    /\ selected_source # None /\ hovered_node # None
    /\ {selected_source, hovered_node} \notin graph.edges
    /\ Len(path) = 3
    /\ path[1] = selected_source /\ path[3] = hovered_node

(* The destinations of the wave node i emits in a spawn_packets step *)
Wave(i) == {p.to : p \in {q \in packets' \ packets : q.from = i}}

(* C12 as stated: every wave spawn_packets emits from an Enemy node goes   *)
(* to exactly the targets ai_behavior last stored for that node, and an    *)
(* Enemy node with an empty target set emits nothing.                      *)
C12_EnemyWaveFollowsAi ==
    [][stage = "spawn" =>
         \A i \in NodeIndices(graph) :
            nodes[i].owner = "Enemy" =>
               (Wave(i) = {} \/ Wave(i) = nodes[i].targets)]_vars

(* C13: every wave emitted from a Player node goes to exactly the members  *)
(* of the node's FlowMap entry (none if it has no entry), a Neutral node   *)
(* emits nothing whatever is recorded for it, and no packet is created     *)
(* outside spawn_packets.                                                  *)
C13_PlayerWaveFollowsFlows ==
    [][/\ stage = "spawn" =>
            \A i \in NodeIndices(graph) :
               /\ nodes[i].owner = "Player" =>
                     \/ Wave(i) = {}
                     \/ i \in DOMAIN flows /\ Wave(i) = flows[i]
               /\ nodes[i].owner = "Neutral" => Wave(i) = {}
       /\ stage # "spawn" => \A q \in packets' \ packets : q.progress > 0]_vars

(* The Player's node has just emitted a wave to its two directives while a *)
(* Neutral node with a directive of its own stays silent                   *)
C13_Witness ==
    /\ stage = "move"
    /\ \E i \in NodeIndices(graph) :
          /\ nodes[i].owner = "Player"
          /\ i \in DOMAIN flows
          /\ Cardinality(flows[i]) = 2
          /\ {p.to : p \in {q \in packets : q.from = i /\ q.progress = 0}} = flows[i]
    /\ \E j \in NodeIndices(graph) :
          /\ nodes[j].owner = "Neutral"
          /\ j \in DOMAIN flows
          /\ \A q \in packets : q.from # j

(* C14: after each firing of ai_behavior every Enemy node with health      *)
(* below 30 has an empty target set and every Enemy node with health of at *)
(* least 30 has exactly one target, a graph neighbor of the node (none     *)
(* only if it has no neighbors); the nodes of other owners keep theirs.    *)
C14_AiTargets ==
    [][(stage = "ai" /\ just_finished(ai_timer, AI_INTERVAL, Delta)) =>
         \A i \in NodeIndices(graph) :
            IF nodes[i].owner = "Enemy"
            THEN IF nodes[i].hp < 30
                 THEN nodes'[i].targets = {}
                 ELSE IF Neighbors(graph, i) = {}
                 THEN nodes'[i].targets = {}
                 ELSE /\ Cardinality(nodes'[i].targets) = 1
                      /\ nodes'[i].targets \subseteq Neighbors(graph, i)
            ELSE nodes'[i] = nodes[i]]_vars

(* ai_behavior has just fired: a captured Enemy node below 30 pauses, and  *)
(* an Enemy node at full strength targets a neighbor that is Enemy-owned   *)
C14_Witness ==
    /\ stage = "spawn"
    /\ ai_timer = 0
    /\ \E i \in NodeIndices(graph) :
          /\ nodes[i].owner = "Enemy"
          /\ nodes[i].hp < 30
          /\ nodes[i].targets = {}
    /\ \E j, t \in NodeIndices(graph) :
          /\ nodes[j].owner = "Enemy"
          /\ nodes[j].hp >= 30
          /\ nodes[j].targets = {t}
          /\ nodes[t].owner = "Enemy"

(* C15: a node that emits a wave to k >= 1 targets leaves spawn_packets    *)
(* with its timer reset to zero and a duration of SPAWN_INTERVAL * k; it   *)
(* emits only when the timer has reached the duration set by its previous  *)
(* wave; without a wave the duration stays and the timer advances by at    *)
(* most the frame time; no other system touches the timer.                 *)
C15_CooldownScales ==
    [][\A i \in NodeIndices(graph) :
          LET k == Cardinality(Wave(i))
          IN /\ (stage = "spawn" /\ k >= 1) =>
                  /\ nodes'[i].duration = SPAWN_INTERVAL * k
                  /\ nodes'[i].elapsed = 0
                  /\ nodes[i].elapsed + Delta >= nodes[i].duration
             /\ (stage = "spawn" /\ k = 0) =>
                  /\ nodes'[i].duration = nodes[i].duration
                  /\ nodes'[i].elapsed <= nodes[i].elapsed + Delta
             /\ stage # "spawn" =>
                  /\ nodes'[i].duration = nodes[i].duration
                  /\ nodes'[i].elapsed = nodes[i].elapsed]_vars

(* A node emits its second wave at three targets, its cooldown again three *)
(* intervals, while another node keeps emitting at one target              *)
C15_Witness ==
    /\ stage = "move"
    /\ tick > 1
    /\ \E i \in NodeIndices(graph) :
          /\ Cardinality({q \in packets : q.from = i /\ q.progress = 0}) = 3
          /\ nodes[i].duration = 3 * SPAWN_INTERVAL
          /\ nodes[i].elapsed = 0
    /\ \E j \in NodeIndices(graph) :
          /\ Cardinality({q \in packets : q.from = j /\ q.progress = 0}) = 1
          /\ nodes[j].duration = SPAWN_INTERVAL
          /\ nodes[j].elapsed = 0

(* The packets of S that agree with q in everything but the progress *)
SameFlight(S, q) == {p \in S : p = [q EXCEPT !.progress = p.progress]}

(* C16: a packet is created, in spawn_packets only, with the owner its     *)
(* source node has at that moment; a packet in flight keeps its source,    *)
(* destination, owner and edge length in every step: move_packets only     *)
(* advances or removes packets, so no owner gains a packet on any edge,    *)
(* and the other systems leave the packets alone.                          *)
C16_PacketOwnerFixed ==
    [][/\ stage = "spawn" =>
            /\ packets \subseteq packets'
            /\ \A q \in packets' \ packets :
                  q.progress = 0 /\ q.owner = nodes[q.from].owner
       /\ stage = "move" =>
            \A q \in packets' :
               /\ \E p \in SameFlight(packets, q) : q.progress > p.progress
               /\ Cardinality(SameFlight(packets', q))
                     <= Cardinality(SameFlight(packets, q))
       /\ stage \notin {"spawn", "move"} => packets' = packets]_vars

(* A tick boundary with a packet in flight whose source has been captured  *)
(* by the other side since the packet was emitted                          *)
C16_Witness ==
    /\ stage = "input"
    /\ \E p \in packets :
          /\ p.progress > 0
          /\ nodes[p.from].owner # p.owner

(* C17: an arriving packet heals or damages according to the owner and     *)
(* health the destination has when the packet arrives, whatever they were  *)
(* when the packet was spawned: same owner at arrival, health + 1 capped   *)
(* at 100; other owner at arrival, health - 1, or capture at zero.         *)
C17_ResolvedAtArrival ==
    hit.done =>
        IF hit.before.owner = hit.packet_owner
        THEN /\ hit.out.owner = hit.before.owner
             /\ hit.out.hp = IF hit.before.hp + PACKET_POWER < NODE_MAX_HP
                             THEN hit.before.hp + PACKET_POWER ELSE NODE_MAX_HP
        ELSE IF hit.before.hp - PACKET_POWER <= 0
        THEN hit.out.owner = hit.packet_owner /\ hit.out.hp = CAPTURE_HP
        ELSE /\ hit.out.owner = hit.before.owner
             /\ hit.out.hp = hit.before.hp - PACKET_POWER

(* A packet spawned toward a node of its own side that the other side      *)
(* captured before the packet arrived: the packet has damaged the node     *)
C17_Witness ==
    /\ hit.done
    /\ hit.node.owner = hit.packet_owner
    /\ hit.before.owner # hit.packet_owner
    /\ hit.out.owner = hit.before.owner
    /\ hit.out.hp = hit.before.hp - PACKET_POWER

(* The system that runs after the one at stage st in a frame *)
NextStage(st) ==
    CASE st = "input" -> "interaction"
      [] st = "interaction" -> "ai"
      [] st = "ai" -> "spawn"
      [] st = "spawn" -> "move"
      [] st = "move" -> "visual"
      [] st = "visual" -> "input"

(* C18: in every frame the systems run in the order handle_interaction,    *)
(* ai_behavior, spawn_packets, move_packets, update_visuals, each on the   *)
(* state the earlier ones left in the same frame (the packets spawned in a *)
(* frame are moved in it); between move_packets of one frame and           *)
(* handle_interaction of the next nothing changes the nodes, so a capture  *)
(* is the ownership handle_interaction and ai_behavior read next frame.    *)
C18_StageOrder ==
    [][/\ stage' = NextStage(stage)
       /\ stage \in {"visual", "input"} =>
            nodes' = nodes /\ packets' = packets /\ flows' = flows
       /\ (stage = "interaction" /\ selected_source' # selected_source
              /\ selected_source' # None) =>
            nodes[selected_source'].owner = "Player"
       /\ stage = "ai" =>
            \A i \in NodeIndices(graph) :
               nodes'[i] # nodes[i] => nodes[i].owner = "Enemy"
       /\ stage = "move" => \A q \in packets' : q.progress > 0]_vars

(* The Player's packets captured a node in the previous frame (it is at    *)
(* the capture health and has not emitted yet), and a left click on it in  *)
(* this frame has selected it as the source                                *)
C18_Witness ==
    /\ stage = "ai"
    /\ input.cursor /\ input.left
    /\ input.hit # None
    /\ InitialOwner(graph, input.hit) # "Player"
    /\ nodes[input.hit].owner = "Player"
    /\ nodes[input.hit].hp = CAPTURE_HP
    /\ input.hit \in DOMAIN flows
    /\ \A p \in packets : p.from # input.hit
    /\ selected_source = input.hit

(* C19: the graph ComputerGraph::random returns is connected: a search     *)
(* from any node visits every node, whatever candidates were drawn.        *)
C19_Connected ==
    stage \in {"setup", "input"} =>
        \A u \in NodeIndices(graph) : Bfs(graph, {u}) = NodeIndices(graph)

(* Three nodes, none within CONNECT_DIST of another, returned joined by    *)
(* two repair edges                                                        *)
C19_Witness ==
    /\ stage = "setup"
    /\ graph.n = 3
    /\ Cardinality(graph.edges) = 2
    /\ \A u, v \in NodeIndices(graph) :
          u # v => NodeDist2(graph, u, v) >= CONNECT_DIST * CONNECT_DIST

(* C20 as stated: a started world has at least 2 nodes, a Player start     *)
(* node and a distinct Enemy start node.                                   *)
C20_TwoStartNodes ==
    stage = "input" =>
        /\ graph.n >= 2
        /\ \E i, j \in NodeIndices(graph) :
              /\ i # j
              /\ nodes[i].owner = "Player"
              /\ nodes[j].owner = "Enemy"

(* The packets that arrive at node i in a move_packets step *)
Arrivals(i) == {p \in packets : p.to = i /\ arrived(advance(p))}

NewFrom(i) == {q \in packets' \ packets : q.from = i}

(* C22: in a frame in which a node's timer finishes, the node is not       *)
(* Neutral and its active target set is not empty, spawn_packets creates   *)
(* exactly one packet per active target, each from the firing node, with   *)
(* the node's current owner, progress 0 and the length of its edge.        *)
C22_OnePacketPerTarget ==
    [][stage = "spawn" =>
         \A i \in NodeIndices(graph) :
            LET targets == active_targets(graph, nodes, flows, i)
            IN (/\ just_finished(nodes[i].elapsed, nodes[i].duration, Delta)
                /\ nodes[i].owner # "Neutral"
                /\ targets # {}) =>
                  /\ Cardinality(NewFrom(i)) = Cardinality(targets)
                  /\ {q.to : q \in NewFrom(i)} = targets
                  /\ \A q \in NewFrom(i) :
                        /\ q.owner = nodes[i].owner
                        /\ q.progress = 0
                        /\ q.edge_len = Distance(graph, i, q.to)]_vars

(* The center of the star has just fired one packet at each of its three   *)
(* neighbors while a Player leaf fired one packet at the center            *)
C22_Witness ==
    /\ stage = "move"
    /\ \E i \in NodeIndices(graph) :
          LET wave == {q \in packets : q.from = i /\ q.progress = 0}
          IN /\ Cardinality(wave) = 3
             /\ {q.to : q \in wave} = Neighbors(graph, i)
             /\ \A q \in wave : q.owner = nodes[i].owner
             /\ \E q \in packets : /\ q.to = i /\ q.progress = 0
                                    /\ q.owner = "Player"
                                    /\ nodes[q.from].owner = "Player"

(* C23 as stated: in a frame in which a node's active target set is empty  *)
(* the node spawns nothing and its cooldown is not reset: a cooldown that  *)
(* expires in such a frame is still expired afterwards, so that the node   *)
(* fires in the next frame in which it has a target.                       *)
C23_ExpiredCooldownKept ==
    [][stage = "spawn" =>
         \A i \in NodeIndices(graph) :
            active_targets(graph, nodes, flows, i) = {} =>
               /\ NewFrom(i) = {}
               /\ just_finished(nodes[i].elapsed, nodes[i].duration, Delta) =>
                     just_finished(nodes'[i].elapsed, nodes'[i].duration, Delta)]_vars

(* C24: packets appear only in spawn_packets, with progress 0, and         *)
(* disappear only in move_packets, exactly those whose progress reaches    *)
(* the end of the edge; every other packet stays with a larger progress;   *)
(* each arriving packet is applied to its destination exactly once, in     *)
(* the step that removes it, and a node without arrivals is left as it     *)
(* was; no packet at or past the end of its edge is ever in flight.        *)
C24_PacketLifecycle ==
    /\ [][/\ stage \notin {"spawn", "move"} => packets' = packets
          /\ stage = "spawn" =>
                /\ packets \subseteq packets'
                /\ \A q \in packets' \ packets : q.progress = 0
          /\ stage = "move" =>
                /\ packets' = {advance(p) : p \in {r \in packets : ~arrived(advance(r))}}
                /\ \A p \in packets : advance(p).progress > p.progress
                /\ \A i \in NodeIndices(graph) :
                      \E order \in Orders(Arrivals(i)) :
                         nodes'[i] = resolve(nodes[i], order, 1)
          /\ stage # "move" =>
                \A i \in NodeIndices(graph) :
                   /\ nodes'[i].hp = nodes[i].hp
                   /\ nodes'[i].owner = nodes[i].owner]_vars
    /\ [](\A p \in packets : p.progress < p.edge_len)

(* Right after move_packets: node 1 has taken hits from both sides, the    *)
(* packets that hit it are gone and later ones are on their way            *)
C24_Witness ==
    /\ stage = "visual"
    /\ nodes[1].owner = "Neutral"
    /\ nodes[1].hp = NEUTRAL_HP - 4 * PACKET_POWER
    /\ \E p \in packets : p.to = 1 /\ p.owner = "Player" /\ p.progress > 0
    /\ \E p \in packets : p.to = 1 /\ p.owner = "Enemy" /\ p.progress > 0

(* C25: the packets that arrive at a node in the same frame are resolved   *)
(* one after another, each against the record the previous one left. If    *)
(* the node has at most PACKET_POWER health and every arriving packet is   *)
(* hostile, the first one captures it (owner of that packet, health        *)
(* CAPTURE_HP, no targets) and each later one is resolved against that:    *)
(* one more point for a packet of the capturing side, one less for a       *)
(* packet of the other side.                                               *)
C25_ArrivalsInSequence ==
    hit.done =>
      /\ \E order \in Orders(hit.batch) : hit.out = resolve(hit.node, order, 1)
      /\ (/\ hit.node.hp <= PACKET_POWER
          /\ \A p \in hit.batch : p.owner # hit.node.owner) =>
            \E first \in hit.batch :
               LET later == hit.batch \ {first}
                   heal == {p \in later : p.owner = first.owner}
               IN /\ hit.out.owner = first.owner
                  /\ hit.out.targets = {}
                  /\ hit.out.hp = CAPTURE_HP + PACKET_POWER * Cardinality(heal)
                                     - PACKET_POWER * Cardinality(later \ heal)

(* A Neutral node with one point of health was reached by two Player       *)
(* packets and one Enemy packet, the Enemy packet first: Enemy captured    *)
(* it and both Player packets damaged it                                   *)
C25_Witness ==
    /\ hit.done
    /\ "batch" \in DOMAIN hit
    /\ hit.node.owner = "Neutral"
    /\ hit.node.hp = PACKET_POWER
    /\ Cardinality({p \in hit.batch : p.owner = "Player"}) = 2
    /\ Cardinality({p \in hit.batch : p.owner = "Enemy"}) = 1
    /\ hit.out.owner = "Enemy"
    /\ hit.out.hp = CAPTURE_HP - 2 * PACKET_POWER

(* The edges the repair loop added: connect joins only closer pairs *)
RepairEdges ==
    {e \in graph.edges :
        \E u, v \in e : NodeDist2(graph, u, v) >= CONNECT_DIST * CONNECT_DIST}

(* C26: an iteration of the repair loop that finds more than one component *)
(* adds exactly one edge, between the component of node 0 and a node       *)
(* outside it, and leaves fewer components; the edges added so far plus    *)
(* the components left never exceed the number of nodes, so at most n - 1  *)
(* edges are added; and the loop ends.                                     *)
C26_RepairTerminates ==
    /\ [][(stage = "repair" /\ Cardinality(components(graph)) > 1) =>
            /\ \E u \in Bfs(graph, {0}) :
                  \E v \in NodeIndices(graph) \ Bfs(graph, {0}) :
                     /\ {u, v} \notin graph.edges
                     /\ graph' = [graph EXCEPT !.edges = @ \cup {{u, v}}]
            /\ Cardinality(components(graph')) < Cardinality(components(graph))
            /\ stage' = "repair"]_vars
    /\ [](stage \in {"repair", "setup", "input"} =>
            /\ graph.n >= 1
            /\ Cardinality(RepairEdges) + Cardinality(components(graph)) <= graph.n
            /\ Cardinality(RepairEdges) <= graph.n - 1)
    /\ (stage = "repair") ~> (stage = "setup")

(* The loop has ended on three nodes after adding two edges, the most that *)
(* three nodes allow, the second one from the node the first edge brought  *)
(* into the component of node 0                                            *)
C26_Witness ==
    /\ stage = "setup"
    /\ graph.n = MaxNodes
    /\ Cardinality(RepairEdges) = graph.n - 1
    /\ Cardinality(graph.edges) = graph.n - 1
    /\ \E e \in RepairEdges : 0 \notin e

(* C27: every directive of the flow map, every target ai_behavior has      *)
(* chosen and every packet in flight joins two distinct nodes that share   *)
(* an edge of the graph.                                                   *)
C27_AlongEdges ==
    /\ \A u \in DOMAIN flows :
          /\ u \in NodeIndices(graph)
          /\ flows[u] # {}
          /\ \A v \in flows[u] : u # v /\ v \in Neighbors(graph, u)
    /\ \A i \in NodeIndices(graph) :
          \A t \in nodes[i].targets : t # i /\ t \in Neighbors(graph, i)
    /\ \A p \in packets :
          /\ p.from # p.to
          /\ p.to \in Neighbors(graph, p.from)
          /\ p.edge_len = Distance(graph, p.from, p.to)

(* The player has drawn a path from node 0 to node 2, which is not a       *)
(* neighbor of node 0; packets of both sides and an Enemy target exist     *)
C27_Witness ==
    /\ selected_source = 0
    /\ hovered_node = 2
    /\ 2 \notin Neighbors(graph, 0)
    /\ DOMAIN flows = {0, 1}
    /\ nodes[2].targets = {1}
    /\ \E p \in packets : p.owner = "Player" /\ p.from = 0
    /\ \E p \in packets : p.owner = "Enemy" /\ p.from = 2

(* The Neutral nodes of a node table *)
NeutralNodes(ns) == {i \in DOMAIN ns : ns[i].owner = "Neutral"}

(* C28: no packet belongs to Neutral; a node that is not Neutral never     *)
(* becomes Neutral, so the set of Neutral nodes only shrinks.              *)
C28_NeutralOnlyShrinks ==
    /\ [](\A p \in packets : p.owner \in {"Player", "Enemy"})
    /\ [][/\ NeutralNodes(nodes') \subseteq NeutralNodes(nodes)
          /\ Cardinality(NeutralNodes(nodes')) <= Cardinality(NeutralNodes(nodes))
          /\ \A q \in packets' \ packets :
                q.progress = 0 => nodes[q.from].owner = q.owner]_vars

(* Node 1, once Neutral, was captured by the Player and then by the Enemy: *)
(* a Player packet it fired is still in flight                             *)
C28_Witness ==
    /\ nodes[1].owner = "Enemy"
    /\ NeutralNodes(nodes) = {}
    /\ \E p \in packets : p.from = 1 /\ p.owner = "Player"

(* C29: while a node is Neutral its health never grows; the packets that   *)
(* arrive at a Neutral node in a frame each take PACKET_POWER from it, or  *)
(* take all it has and capture it; and the Neutral node, which the Enemy   *)
(* never stops firing at, is eventually captured.                          *)
C29_NeutralWearsDown ==
    /\ [][\A i \in NodeIndices(graph) :
            nodes[i].owner = "Neutral" =>
               /\ nodes'[i].owner = "Neutral" => nodes'[i].hp <= nodes[i].hp
               /\ stage = "move" =>
                     IF PACKET_POWER * Cardinality(Arrivals(i)) < nodes[i].hp
                     THEN /\ nodes'[i].owner = "Neutral"
                          /\ nodes'[i].hp = nodes[i].hp
                                              - PACKET_POWER * Cardinality(Arrivals(i))
                     ELSE /\ nodes'[i].owner # "Neutral"
                          /\ \E p \in Arrivals(i) : nodes'[i].owner = p.owner]_vars
    /\ \A i \in NodeIndices(PathGraph) :
          (nodes[i].owner = "Neutral") ~> (nodes[i].owner # "Neutral")

(* The Neutral node, left to the Enemy alone, has lost all but one point   *)
(* and the packet that will capture it is about to arrive                  *)
C29_Witness ==
    /\ stage = "move"
    /\ inputs = 0
    /\ nodes[1].owner = "Neutral"
    /\ nodes[1].hp = PACKET_POWER
    /\ Arrivals(1) # {}
    /\ \A p \in Arrivals(1) : p.owner = "Enemy"

(* The frame in which packet p was spawned: its progress grows by          *)
(* PACKET_SPEED * Delta in the move_packets step of every frame, the frame *)
(* of its spawn included                                                   *)
Born(p) ==
    tick - (p.progress \div (PACKET_SPEED * Delta))
         + (IF stage \in {"visual", "input"} THEN 1 ELSE 0)

(* The length of the longest edge of the path graph *)
LongestEdge ==
    LET lens == {Distance(PathGraph, u, v) :
                   <<u, v>> \in {e \in NodeIndices(PathGraph) \X NodeIndices(PathGraph) :
                                   e[2] \in Neighbors(PathGraph, e[1])}}
    IN CHOOSE d \in lens : \A e \in lens : e <= d

(* The packets spawned in the frames b, b + LongestEdge + 1, ...: two of   *)
(* these frames are further apart than any packet is in flight             *)
Cohort(b) == {p \in packets : Born(p) % (LongestEdge + 1) = b}

(* C30: every packet spawned while frames keep coming is destroyed: the    *)
(* packets of a frame are all gone before the frame LongestEdge + 1 later  *)
(* spawns its own, whoever owns their source and destination by then; no   *)
(* packet is in flight for more frames than its edge is long; and the step *)
(* that removes a packet resolves it against its destination.              *)
C30_PacketsArrive ==
    /\ \A b \in 0 .. LongestEdge :
          (Cohort(b) # {} /\ tick <= MaxSiegeTick - LongestEdge) ~> (Cohort(b) = {})
    /\ [](\A p \in packets :
            /\ Born(p) \in 1 .. tick
            /\ tick - Born(p) < p.edge_len)
    /\ [][stage = "move" =>
            \A p \in packets :
               arrived(advance(p)) =>
                  /\ \A q \in packets' : Born(q)' # Born(p)
                                           \/ q.from # p.from \/ q.to # p.to
                  /\ \E order \in Orders(Arrivals(p.to)) :
                        /\ \E k \in DOMAIN order : order[k] = p
                        /\ nodes'[p.to] = resolve(nodes[p.to], order, 1)]_vars

(* A Player packet fired by node 1 is still in flight after the Enemy      *)
(* captured node 1, and a packet reaches node 1 in this frame              *)
C30_Witness ==
    /\ stage = "move"
    /\ nodes[1].owner = "Enemy"
    /\ \E p \in packets : /\ p.from = 1 /\ p.owner = "Player"
                           /\ p.progress > 0 /\ ~arrived(advance(p))
    /\ \E p \in packets : p.to = 1 /\ arrived(advance(p))

(* C31: no key of the flow map is mapped to the empty set; a key appears   *)
(* only in an add-mode edit and disappears only in an erase-mode edit      *)
(* whose path holds the key followed by its last destination.              *)
C31_NoEmptyEntry ==
    /\ [](\A u \in DOMAIN flows : flows[u] # {})
    /\ [][/\ DOMAIN flows' # DOMAIN flows =>
                stage = "interaction" /\ input.cursor /\ input.right
          /\ \A u \in DOMAIN flows' \ DOMAIN flows : ~input.shift
          /\ \A u \in DOMAIN flows \ DOMAIN flows' :
                /\ input.shift
                /\ \E k \in 1 .. Len(path') - 1 :
                      path'[k] = u /\ flows[u] = {path'[k + 1]}
          /\ \A u \in DOMAIN flows \cap DOMAIN flows' :
                (input.shift /\ flows'[u] # flows[u]) =>
                   flows'[u] \subseteq flows[u]]_vars

(* An erase-mode edit has just taken the last destination of the selected  *)
(* node, and with it the node's key, while another key stays; a packet     *)
(* fired under the erased directive is still in flight                     *)
C31_Witness ==
    /\ stage = "ai"
    /\ input.right /\ input.shift
    /\ Len(path) >= 2
    /\ path[1] \notin DOMAIN flows
    /\ DOMAIN flows # {}
    /\ \E p \in packets : p.from = path[1] /\ p.to = path[2] /\ p.owner = "Player"

====
